---- MODULE Spec2Model ----
(***************************************************************************)
(* Model of vizalert/emailaction.py: recipient validation                  *)
(* (address_is_invalid, addresses_are_invalid, validate_addresses) and     *)
(* message composition and SMTP delivery (send_email, mimify_file).        *)
(*                                                                         *)
(* Text is a sequence of characters; a character is a one-element token    *)
(* ("a", "@", ...).  The token "u00e9" stands for one non-ASCII character. *)
(* None is the empty tuple: the code tests its optional arguments by their *)
(* truth value, and an absent list behaves as an empty one.                *)
(***************************************************************************)
EXTENDS Integers, Sequences, FiniteSets, TLC

VARIABLES
    \* ---- address_is_invalid(address, regex_eval)
    apc,              \* "call" | "return"
    address,
    regex_eval,
    errormessage,
    \* ---- addresses_are_invalid / validate_addresses
    vpc,              \* "idle" | "field" | "table" | "return_field" | "return_table"
    emailaddresses,
    emptystringok,
    field_regex,
    result,
    vizdata,
    fieldnames,       \* which of the From / CC / BCC field names are given
    allowed,          \* [from |-> pattern, recipient |-> pattern]
    errorlist,
    \* ---- send_email
    pc,               \* the line send_email is at, "returned" or "raised"
    args,             \* the arguments of the call
    config,           \* config.configs: smtp.ssl, smtp.user
    heap,             \* the list objects, by identity
    toaddrs,          \* the local names bound to list objects
    allrecips,
    msg,              \* the MIME tree: headers, related parts, appended parts
    appendedfilenames,
    io,               \* the flattened message
    session,          \* the SMTP operations issued, each with its outcome
    sent,             \* what sendmail handed to the server, or None
    log,              \* the warnings and errors logged
    exc               \* the exception send_email raised, or None

avars == <<apc, address, regex_eval, errormessage>>
vvars == <<vpc, emailaddresses, emptystringok, field_regex, result,
           vizdata, fieldnames, allowed, errorlist>>
svars == <<pc, args, config, heap, toaddrs, allrecips, msg, appendedfilenames,
           io, session, sent, log, exc>>
vars == <<avars, vvars, svars>>

None == <<>>

(***************************************************************************)
(* Bounds of the model.                                                    *)
(***************************************************************************)
MaxLen == 6          \* longest exhaustively enumerated address
MaxTokens == 3       \* pieces (delimiters, addresses) of an address field
MaxRows == 3         \* rows of the viz data
MaxFieldLen == 2     \* characters of a recipient argument of send_email
MaxAttachments == 3  \* appended attachments of one message
MaxTail == 3         \* longest text after the padding of a long address
PadSlack == 6        \* how far below a length limit the paddings start

(***************************************************************************)
(* Text helpers.                                                           *)
(***************************************************************************)
Rep(c, n) == [i \in 1..n |-> c]

RECURSIVE Strings(_, _)
Strings(chars, n) ==
    IF n = 0 THEN {<<>>}
    ELSE LET shorter == Strings(chars, n - 1)
         IN  shorter \cup {Append(s, c) : s \in {t \in shorter : Len(t) = n - 1}, c \in chars}

Take(s, n) == SubSeq(s, 1, IF n < Len(s) THEN n ELSE Len(s))
Drop(s, n) == SubSeq(s, n + 1, Len(s))

Contains(s, c) == \E i \in 1..Len(s) : s[i] = c

\* index of the last occurrence of c in s, 0 when there is none
LastIndex(s, c) ==
    IF Contains(s, c) THEN CHOOSE i \in 1..Len(s) : s[i] = c /\ \A j \in (i + 1)..Len(s) : s[j] # c
    ELSE 0

\* str.replace(c, ""): s without any occurrence of a character of cs
Without(s, cs) == SelectSeq(s, LAMBDA ch : ch \notin cs)

(***************************************************************************)
(* address_is_invalid                                                      *)
(***************************************************************************)
MinAddressLen == 6
MaxLocalpartLen == 64
MaxAddressLen == 254

NonAscii == {"u00e9"}
AlnumChars == {"a", "b", "c", "d", "e", "f", "m", "o", "x", "y", "z"}
LocalpartStripped == {"-", "_", ".", "%", "+"}
HostStripped == {"-", "_", "."}

\* str.isalnum(): false for the empty string
isalnum(s) == Len(s) > 0 /\ \A i \in 1..Len(s) : s[i] \in AlnumChars

\* address.decode('ascii') succeeds
decode_ascii_ok(s) == \A i \in 1..Len(s) : s[i] \notin NonAscii

\* re.match(regex_eval, address) for an administrator pattern that is a
\* literal text: the match is anchored at the start of the address only.
re_match(regex, s) == Len(s) >= Len(regex) /\ Take(s, Len(regex)) = regex

\* s.rsplit(c, 1): one part when c does not occur, else the text before and
\* after the last occurrence
rsplit(s, c) ==
    LET i == LastIndex(s, c)
    IN  IF i = 0 THEN <<s>> ELSE <<Take(s, i - 1), Drop(s, i)>>

\* the error messages, u'...{}'.format(x) being the text followed by x
MsgEmpty == <<"Address is empty">>
MsgRegex(regex) == <<"Address must match regex pattern set by the administrator: ">> \o regex
MsgTooShort(a) == <<"Address is too short: ">> \o a
MsgAscii(a) == <<"Address must contain only ASCII characers: ">> \o a
MsgFewParts == <<"Address has too few parts">>
MsgLocalpart == <<"Localpart of address exceeds max length (65 characters)">>
MsgTooLong == <<"Address exceeds max length (254 characters)">>
MsgFunny == <<"Address has funny characters">>

\* the length check with the bound included
TooShortInclusive(a) == Len(a) <= MinAddressLen
TooShort(a) == Len(a) < MinAddressLen

\* the address cut at its first '@' instead of its last
SplitAtFirst(a) ==
    IF ~Contains(a, "@") THEN <<a>>
    ELSE LET i == CHOOSE k \in 1..Len(a) : a[k] = "@" /\ \A j \in 1..(k - 1) : a[j] # "@"
         IN  <<Take(a, i - 1), Drop(a, i)>>
SplitAddress(a) == rsplit(a, "@")

address_is_invalid(a, regex) ==
    IF a = None \/ Len(a) = 0 THEN MsgEmpty
    ELSE IF regex # None /\ ~re_match(regex, a) THEN MsgRegex(regex)
    ELSE IF TooShort(a) THEN MsgTooShort(a)
    ELSE IF ~decode_ascii_ok(a) THEN MsgAscii(a)
    ELSE LET parts == SplitAddress(a)
         IN  IF Len(parts) # 2 THEN MsgFewParts
             ELSE LET dparts == rsplit(parts[2], ".")
                  IN  IF Len(dparts) # 2 THEN MsgFewParts
                      ELSE LET localpart == Without(parts[1], LocalpartStripped)
                               host == Without(dparts[1], HostStripped)
                           IN  IF Len(localpart) > MaxLocalpartLen THEN MsgLocalpart
                               ELSE IF Len(a) > MaxAddressLen THEN MsgTooLong
                               ELSE IF isalnum(localpart) /\ isalnum(host) THEN None
                               ELSE MsgFunny

(***************************************************************************)
(* addresses_are_invalid                                                   *)
(***************************************************************************)
\* the characters of EMAIL_RECIP_SPLIT_REGEX = u'[; ,]*'
EMAIL_RECIP_SPLIT_REGEX == {";", " ", ","}
Whitespace == {" "}
TruncateLen == 64
Ellipsis == <<".", ".", ".">>

IsDelim(c) == c \in EMAIL_RECIP_SPLIT_REGEX

\* str.strip(): without the leading and the trailing whitespace
RECURSIVE lstrip(_)
lstrip(s) == IF s # <<>> /\ Head(s) \in Whitespace THEN lstrip(Tail(s)) ELSE s
RECURSIVE rstrip(_)
rstrip(s) == IF s # <<>> /\ s[Len(s)] \in Whitespace THEN rstrip(Take(s, Len(s) - 1)) ELSE s
strip(s) == rstrip(lstrip(s))

\* re.split(EMAIL_RECIP_SPLIT_REGEX, s) of Python 2: the text is cut at every
\* maximal non-empty run of delimiters (an empty match never splits), so a
\* leading or trailing run leaves an empty first or last element.
RECURSIVE re_split(_)
re_split(s) ==
    IF \A i \in 1..Len(s) : ~IsDelim(s[i]) THEN <<s>>
    ELSE LET i == CHOOSE k \in 1..Len(s) : IsDelim(s[k]) /\ \A j \in 1..(k - 1) : ~IsDelim(s[j])
             j == CHOOSE k \in i..Len(s) :
                      /\ \A m \in i..k : IsDelim(s[m])
                      /\ (k = Len(s) \/ ~IsDelim(s[k + 1]))
         IN  <<Take(s, i - 1)>> \o re_split(Drop(s, j))

\* the truncation applied from 64 characters on
ReportedAddressFrom64(a) ==
    IF Len(a) >= TruncateLen THEN Take(a, TruncateLen) \o Ellipsis ELSE a

\* line 157-158: the address as reported in the error
ReportedAddress(a) == IF Len(a) > TruncateLen THEN Take(a, TruncateLen) \o Ellipsis ELSE a

\* line 151: the empty sub-address of a field that may be empty
EmptyAccepted(ok, a) == ok /\ (a = <<>> \/ a = None)

\* the loop of lines 149-160 over address_list
RECURSIVE CheckAddressList(_, _, _)
CheckAddressList(address_list, ok, regex) ==
    IF address_list = <<>> THEN None
    ELSE LET a == Head(address_list)
         IN  IF EmptyAccepted(ok, a) THEN None
             ELSE LET e == address_is_invalid(a, regex)
                  IN  IF e # None
                      THEN [address |-> ReportedAddress(a), errormessage |-> e]
                      ELSE CheckAddressList(Tail(address_list), ok, regex)

addresses_are_invalid(addresses, ok, regex) ==
    CheckAddressList(re_split(strip(addresses)), ok, regex)

(***************************************************************************)
(* validate_addresses                                                      *)
(***************************************************************************)
FirstRownum == 2

ErrorRecord(rownum, field, res) ==
    [Row |-> rownum, Field |-> field, Value |-> res.address, Error |-> res.errormessage]

\* lines 297-317: the errors of one row, in the order To, From, CC, BCC
RowErrors(row, rownum, names, pats) ==
    LET to == addresses_are_invalid(row["To"], FALSE, pats.recipient)
        from == IF "From" \in names
                THEN addresses_are_invalid(row["From"], FALSE, pats.from) ELSE None
        cc == IF "CC" \in names
              THEN addresses_are_invalid(row["CC"], TRUE, pats.recipient) ELSE None
        bcc == IF "BCC" \in names
               THEN addresses_are_invalid(row["BCC"], TRUE, pats.recipient) ELSE None
    IN  (IF to # None THEN <<ErrorRecord(rownum, "To", to)>> ELSE <<>>)
        \o (IF from # None THEN <<ErrorRecord(rownum, "From", from)>> ELSE <<>>)
        \o (IF cc # None THEN <<ErrorRecord(rownum, "CC", cc)>> ELSE <<>>)
        \o (IF bcc # None THEN <<ErrorRecord(rownum, "BCC", bcc)>> ELSE <<>>)

\* the loop left at the first row that has an error
RECURSIVE ValidateRowsStop(_, _, _, _, _)
ValidateRowsStop(rows, rownum, names, pats, errs) ==
    IF rows = <<>> THEN errs
    ELSE LET e == RowErrors(Head(rows), rownum, names, pats)
         IN  IF e # <<>> THEN errs \o e
             ELSE ValidateRowsStop(Tail(rows), rownum + 1, names, pats, errs)

\* the loop of lines 296-318
RECURSIVE ValidateRows(_, _, _, _, _)
ValidateRows(rows, rownum, names, pats, errs) ==
    IF rows = <<>> THEN errs
    ELSE ValidateRows(Tail(rows), rownum + 1, names, pats,
                      errs \o RowErrors(Head(rows), rownum, names, pats))

validate_addresses(rows, names, pats) == ValidateRows(rows, FirstRownum, names, pats, <<>>)

(***************************************************************************)
(* Inputs of address_is_invalid.                                           *)
(***************************************************************************)
AddressChars == {"a", "@", ".", "-", "u00e9"}
ShortAddresses == Strings(AddressChars, MaxLen)

PadLens == ((MaxLocalpartLen - PadSlack)..(MaxLocalpartLen + 1))
               \cup ((MaxAddressLen - PadSlack)..(MaxAddressLen + 1))
LongAddresses ==
    {h \o Rep("a", n) \o t : h \in {<<>>, <<"a", "@">>, <<"-">>},
                             n \in PadLens,
                             t \in Strings({"a", "@", "."}, MaxTail)}

A_b_co == <<"a", "@", "b", ".", "c", "o">>
Abc_def_com == <<"a", "b", "c", "@", "d", "e", "f", ".", "c", "o", "m">>
A_b_c == <<"a", "@", "b", ".", "c">>

Addresses == ShortAddresses \cup LongAddresses \cup {A_b_co, Abc_def_com, A_b_c}
Patterns == {None, <<"a">>, <<"a", "b">>}

VIdle ==
    /\ vpc = "idle" /\ emailaddresses = <<>> /\ emptystringok = FALSE
    /\ field_regex = None /\ result = None /\ vizdata = <<>>
    /\ fieldnames = {} /\ allowed = [from |-> None, recipient |-> None]
    /\ errorlist = <<>>

NoMessage == [headers |-> <<>>, related |-> <<>>, parts |-> <<>>]

SIdle ==
    /\ pc = "idle" /\ args = None /\ config = None /\ heap = <<>>
    /\ toaddrs = None /\ allrecips = None /\ msg = NoMessage
    /\ appendedfilenames = <<>> /\ io = None /\ session = <<>>
    /\ sent = None /\ log = <<>> /\ exc = None

InitAddress ==
    /\ apc = "call"
    /\ address \in Addresses
    /\ regex_eval \in Patterns
    /\ errormessage = None
    /\ VIdle
    /\ SIdle

CallAddressIsInvalid ==
    /\ apc = "call"
    /\ errormessage' = address_is_invalid(address, regex_eval)
    /\ apc' = "return"
    /\ UNCHANGED <<address, regex_eval, vvars, svars>>

NextAddress == CallAddressIsInvalid

SpecAddress == InitAddress /\ [][NextAddress]_vars

(***************************************************************************)
(* Inputs of addresses_are_invalid and validate_addresses.                 *)
(***************************************************************************)
ValidAddress == <<"a", "@", "a", ".", "a", "a">>
ShortInvalid == <<"a">>
FieldTokens ==
    {<<";">>, <<",">>, <<" ">>,
     ValidAddress, ShortInvalid,
     Rep("a", TruncateLen), Rep("a", TruncateLen + 1),
     Rep("a", TruncateLen - 5) \o ValidAddress}

RECURSIVE Fields(_)
Fields(n) ==
    IF n = 0 THEN {<<>>}
    ELSE LET shorter == Fields(n - 1)
         IN  shorter \cup {f \o t : f \in shorter, t \in FieldTokens}

\* the values a column of the viz data takes
ColumnValues(name) ==
    CASE name = "To" -> {<<>>, ValidAddress}
      [] name = "From" -> {ValidAddress, ShortInvalid}
      [] name = "CC" -> {ValidAddress, ValidAddress \o <<";">> \o ShortInvalid}
      [] name = "BCC" -> {<<>>, Rep("a", TruncateLen + 1)}

\* the rows with the column "To" and the columns of names
RECURSIVE RowsOf(_)
RowsOf(names) ==
    IF names = {} THEN {[n \in {"To"} |-> v] : v \in ColumnValues("To")}
    ELSE LET name == CHOOSE n \in names : TRUE
         IN  {[n \in DOMAIN r \cup {name} |-> IF n = name THEN v ELSE r[n]] :
                  r \in RowsOf(names \ {name}), v \in ColumnValues(name)}

RECURSIVE Tables(_, _)
Tables(rows, n) ==
    IF n = 0 THEN {<<>>}
    ELSE LET shorter == Tables(rows, n - 1)
         IN  shorter \cup {Append(t, r) : t \in {u \in shorter : Len(u) = n - 1}, r \in rows}

AIdle == apc = "idle" /\ address = <<>> /\ regex_eval = None /\ errormessage = None

InitField ==
    /\ AIdle
    /\ vpc = "field"
    /\ emailaddresses \in Fields(MaxTokens)
    /\ emptystringok \in BOOLEAN
    /\ field_regex \in {None, <<"a">>}
    /\ result = None /\ vizdata = <<>> /\ fieldnames = {}
    /\ allowed = [from |-> None, recipient |-> None]
    /\ errorlist = <<>>

InitTable ==
    /\ AIdle
    /\ vpc = "table"
    /\ emailaddresses = <<>> /\ emptystringok = FALSE /\ field_regex = None
    /\ result = None
    /\ fieldnames \in SUBSET {"From", "CC", "BCC"}
    /\ vizdata \in Tables(RowsOf(fieldnames), MaxRows)
    /\ allowed = [from |-> <<"a">>, recipient |-> None]
    /\ errorlist = <<>>

InitValidate == (InitField \/ InitTable) /\ SIdle

CallAddressesAreInvalid ==
    /\ vpc = "field"
    /\ result' = addresses_are_invalid(emailaddresses, emptystringok, field_regex)
    /\ vpc' = "return_field"
    /\ UNCHANGED <<avars, svars, emailaddresses, emptystringok, field_regex, vizdata,
                   fieldnames, allowed, errorlist>>

CallValidateAddresses ==
    /\ vpc = "table"
    /\ errorlist' = validate_addresses(vizdata, fieldnames, allowed)
    /\ vpc' = "return_table"
    /\ UNCHANGED <<avars, svars, emailaddresses, emptystringok, field_regex, vizdata,
                   fieldnames, allowed, result>>

NextValidate == CallAddressesAreInvalid \/ CallValidateAddresses

SpecValidate == InitValidate /\ [][NextValidate]_vars

(***************************************************************************)
(* Properties of address_is_invalid (SpecAddress).                         *)
(***************************************************************************)
\* the text after the last '@' of a
DomainOf(a) == Drop(a, LastIndex(a, "@"))
\* a has no '@', or its domain has no '.'
LacksParts(a) == ~Contains(a, "@") \/ ~Contains(DomainOf(a), ".")

\* C6 as stated: with no administrator pattern, "a@b.co" is reported invalid
\* with the too-short reason and "abc@def.com" is reported valid.
C6_AsStated ==
    (apc = "return" /\ regex_eval = None) =>
        /\ (address = A_b_co => errormessage = MsgTooShort(A_b_co))
        /\ (address = Abc_def_com => errormessage = None)

\* C6 amended: with no administrator pattern, "a@b.co" (6 characters, not
\* fewer than 6) is reported valid, and "abc@def.com" is reported valid.
C6_SixCharsValid ==
    (apc = "return" /\ regex_eval = None) =>
        /\ (address = A_b_co => errormessage = None)
        /\ (address = Abc_def_com => errormessage = None)

C6_Witness == apc = "return" /\ regex_eval = None /\ address = A_b_co /\ errormessage = None

\* C7 as stated: an address with no '@', or whose domain has no '.', always
\* gets the "too few parts" error, whatever its length and pattern.
C7_AsStated ==
    (apc = "return" /\ LacksParts(address)) => errormessage = MsgFewParts

\* C7 amended: an address with no '@', or whose domain has no '.', always gets
\* an error, and the error is "too few parts" exactly when the address is at
\* least 6 characters long, ASCII-only and matches the administrator pattern
\* if one is supplied (otherwise an earlier check reports its own reason).
C7_FewPartsAfterEarlierChecks ==
    (apc = "return" /\ LacksParts(address)) =>
        /\ errormessage # None
        /\ errormessage = MsgFewParts <=>
              /\ Len(address) >= MinAddressLen
              /\ \A i \in 1..Len(address) : address[i] \notin NonAscii
              /\ (regex_eval = None \/ Take(address, Len(regex_eval)) = regex_eval)

C7_Witness ==
    /\ apc = "return" /\ LacksParts(address) /\ Contains(address, "@")
    /\ regex_eval # None /\ errormessage = MsgFewParts

(***************************************************************************)
(* Properties of addresses_are_invalid and validate_addresses              *)
(* (SpecValidate).                                                         *)
(***************************************************************************)
SubAddresses(f) == re_split(strip(f))

\* v is the address a as the amended C8 reports it
ReportsAs(v, a) ==
    \/ Len(a) <= TruncateLen /\ v = a
    \/ /\ Len(a) > TruncateLen
       /\ Len(v) = TruncateLen + 3
       /\ \A i \in 1..TruncateLen : v[i] = a[i]
       /\ \A i \in (TruncateLen + 1)..(TruncateLen + 3) : v[i] = "."

\* v is the address a as C8 states it: cut to 64 characters
ReportsCut(v, a) ==
    /\ Len(v) <= TruncateLen
    /\ Len(v) = (IF Len(a) > TruncateLen THEN TruncateLen ELSE Len(a))
    /\ \A i \in 1..Len(v) : v[i] = a[i]

TableFields(i) == {n \in DOMAIN vizdata[i] : n = "To" \/ n \in fieldnames}

\* C8 as stated: every reported value has at most 64 characters, a longer
\* address being cut to its first 64 characters.
C8_AsStated ==
    /\ (vpc = "return_field" /\ result # None) =>
           \E k \in 1..Len(SubAddresses(emailaddresses)) :
               ReportsCut(result.address, SubAddresses(emailaddresses)[k])
    /\ vpc = "return_table" =>
           \A e \in 1..Len(errorlist) : Len(errorlist[e].Value) <= TruncateLen

\* C8 amended: an offending address of 64 characters or fewer is reported
\* unchanged, and a longer one is reported as its first 64 characters followed
\* by "...", 67 characters in all.
C8_TruncatedWithEllipsis ==
    /\ (vpc = "return_field" /\ result # None) =>
           \E k \in 1..Len(SubAddresses(emailaddresses)) :
               /\ ReportsAs(result.address, SubAddresses(emailaddresses)[k])
               /\ \A j \in 1..(k - 1) :
                      address_is_invalid(SubAddresses(emailaddresses)[j], field_regex) = None
               /\ address_is_invalid(SubAddresses(emailaddresses)[k], field_regex) # None
    /\ vpc = "return_table" =>
           \A e \in 1..Len(errorlist) :
               LET row == vizdata[errorlist[e].Row - 1]
                   subs == SubAddresses(row[errorlist[e].Field])
               IN  \E k \in 1..Len(subs) : ReportsAs(errorlist[e].Value, subs[k])

C8_Witness ==
    /\ vpc = "return_field" /\ result # None
    /\ Len(result.address) = TruncateLen + 3
    /\ Len(emailaddresses) > TruncateLen + 3

\* C10: whenever addresses_are_invalid returns none, every non-empty
\* sub-address of the field passes address_is_invalid.
C10_AcceptedFieldIsValid ==
    (vpc = "return_field" /\ result = None) =>
        \A k \in 1..Len(SubAddresses(emailaddresses)) :
            SubAddresses(emailaddresses)[k] # <<>> =>
                address_is_invalid(SubAddresses(emailaddresses)[k], field_regex) = None

\* the error of field n of row i, or None
FieldResult(i, n) ==
    addresses_are_invalid(vizdata[i][n], n \in {"CC", "BCC"},
                          IF n = "From" THEN allowed.from ELSE allowed.recipient)

FieldRank(n) == CASE n = "To" -> 1 [] n = "From" -> 2 [] n = "CC" -> 3 [] n = "BCC" -> 4

\* C5: validate_addresses checks every row: each failing field of the row at
\* zero-based index i has exactly one error tagged Row = i + 2, errors are in
\* row order and within a row in the order To, From, CC, BCC; three rows of
\* which only the middle one has an empty To give exactly one error, Row = 3.
C5_EveryRowChecked ==
    vpc = "return_table" =>
        /\ \A i \in 1..Len(vizdata) : \A n \in TableFields(i) :
               LET hits == {e \in 1..Len(errorlist) :
                               errorlist[e].Row = (i - 1) + 2 /\ errorlist[e].Field = n}
               IN  IF FieldResult(i, n) = None THEN hits = {}
                   ELSE /\ Cardinality(hits) = 1
                        /\ \A e \in hits : errorlist[e].Error = FieldResult(i, n).errormessage
        /\ \A e \in 1..Len(errorlist) :
               /\ errorlist[e].Row \in 2..(Len(vizdata) + 1)
               /\ errorlist[e].Field \in TableFields(errorlist[e].Row - 1)
        /\ \A e, f \in 1..Len(errorlist) : e < f =>
               \/ errorlist[e].Row < errorlist[f].Row
               \/ /\ errorlist[e].Row = errorlist[f].Row
                  /\ FieldRank(errorlist[e].Field) < FieldRank(errorlist[f].Field)
        /\ ( /\ Len(vizdata) = 3
             /\ vizdata[2]["To"] = <<>>
             /\ \A i \in 1..3 : \A n \in TableFields(i) :
                    (i # 2 \/ n # "To") => FieldResult(i, n) = None )
           => (Len(errorlist) = 1 /\ errorlist[1].Row = 3 /\ errorlist[1].Field = "To")

C5_Witness ==
    /\ vpc = "return_table" /\ Len(vizdata) = 3 /\ fieldnames = {"From", "CC", "BCC"}
    /\ vizdata[2]["To"] = <<>>
    /\ Len(errorlist) = 1 /\ errorlist[1].Row = 3

(***************************************************************************)
(* send_email: composition.                                                *)
(***************************************************************************)
\* ', '.join(list)
RECURSIVE Join(_)
Join(list) ==
    IF list = <<>> THEN <<>>
    ELSE IF Len(list) = 1 THEN list[1]
    ELSE list[1] \o <<",", " ">> \o Join(Tail(list))

InList(x, list) == \E i \in 1..Len(list) : list[i] = x

\* a non-empty string argument (if ccaddrs:)
Truthy(x) == x # None /\ x # <<>>

\* A path is [abs, parts]: whether it starts at the root, and its components,
\* each a text.
Cwd == << <<"c", "w", "d">> >>
Home == << <<"h", "o", "m", "e">> >>
expanduser(path) ==
    IF ~path.abs /\ path.parts # <<>> /\ path.parts[1] = <<"~">>
    THEN [abs |-> TRUE, parts |-> Home \o Tail(path.parts)]
    ELSE path
abspath(path) == IF path.abs THEN path ELSE [abs |-> TRUE, parts |-> Cwd \o path.parts]
basename(path) == IF path.parts = <<>> THEN <<>> ELSE path.parts[Len(path.parts)]

\* mimify_file: the part for a file; its payload is the content of the file
\* at the absolute path (the content type does not bear on the file name).
mimify_file(filename, inline, overridename) ==
    LET path == abspath(expanduser(filename))
        basefilename == IF Truthy(overridename) THEN overridename ELSE basename(path)
    IN  IF inline
        THEN [disposition |-> "inline", filename |-> basefilename,
              contentid |-> basefilename, payload |-> path]
        ELSE [disposition |-> "attachment", filename |-> basefilename,
              contentid |-> None, payload |-> path]

\* vizalert.merge_pdf_attachments: attachments without a merge option come
\* back as they are
merge_pdf_attachments(attachments) == attachments

DuplicateWarning(name) ==
    <<"info", "Warning: attempted to attach duplicate filename ", name,
      ", using unique auto-generated name instead.">>

\* the custom filename taken without looking at the used names
NameIsFreeAlways(name, used) == TRUE

\* line 105: the custom filename has not been used yet
NameIsFree(name, used) == ~InList(name, used)

\* the loop of lines 98-112; acc is [used, parts, warnings]
RECURSIVE AttachAppended(_, _)
AttachAppended(attachments, acc) ==
    IF attachments = <<>> THEN acc
    ELSE LET vizref == Head(attachments)
         IN  IF "filename" \notin DOMAIN vizref
             THEN AttachAppended(Tail(attachments),
                      [acc EXCEPT !.parts = Append(@, mimify_file(vizref.imagepath, FALSE, None))])
             ELSE IF NameIsFree(vizref.filename, acc.used)
             THEN AttachAppended(Tail(attachments),
                      [acc EXCEPT !.used = Append(@, vizref.filename),
                                  !.parts = Append(@, mimify_file(vizref.imagepath, FALSE,
                                                                  vizref.filename))])
             ELSE AttachAppended(Tail(attachments),
                      [acc EXCEPT !.parts = Append(@, mimify_file(vizref.imagepath, FALSE, None)),
                                  !.warnings = Append(@, DuplicateWarning(vizref.filename))])

\* lines 89-91
RECURSIVE AttachInline(_)
AttachInline(attachments) ==
    IF attachments = <<>> THEN <<>>
    ELSE <<mimify_file(Head(attachments).imagepath, TRUE, None)>> \o AttachInline(Tail(attachments))

(***************************************************************************)
(* send_email: the exceptions and the except clauses of lines 128-142.     *)
(***************************************************************************)
SMTPExceptions ==
    {"SMTPConnectError", "SMTPHeloError", "SMTPAuthenticationError", "SMTPException",
     "SMTPServerDisconnected", "SMTPRecipientsRefused", "SMTPSenderRefused", "SMTPDataError"}

Raises(op) ==
    CASE op = "attach" -> {"IOError"}
      [] op = "connect" -> {"SMTPConnectError", "socket.error"}
      [] op = "ehlo" -> {"SMTPServerDisconnected"}
      [] op = "starttls" -> {"SMTPHeloError", "SMTPException"}
      [] op = "login" -> {"SMTPHeloError", "SMTPAuthenticationError", "SMTPException"}
      [] op = "sendmail" -> {"SMTPHeloError", "SMTPRecipientsRefused", "SMTPSenderRefused",
                             "SMTPDataError"}
      [] op = "quit" -> {"SMTPServerDisconnected"}

ExceptClause(e) ==
    IF e = "SMTPConnectError"
    THEN "Email failed to send; there was an issue connecting to the SMTP server: "
    ELSE IF e = "SMTPHeloError"
    THEN "Email failed to send; the SMTP server refused our HELO message: "
    ELSE IF e = "SMTPAuthenticationError"
    THEN "Email failed to send; there was an issue authenticating to SMTP server: "
    ELSE IF e \in SMTPExceptions
    THEN "Email failed to send; there was an issue sending mail via SMTP server: "
    ELSE "Email failed to send: "

\* an except clause logs the error and raises it again
Raise(e) ==
    /\ pc' = "raised"
    /\ exc' = e
    /\ log' = Append(log, <<"error", ExceptClause(e), e>>)

\* the login attempted whether or not a user is configured
AfterStartTlsAlwaysLogin(cfg) == "login"

\* where send_email goes after the connection is made (lines 115-118)
AfterStartTls(cfg) == IF cfg.user THEN "login" ELSE "flatten"
AfterConnect(cfg) == IF cfg.ssl THEN "ehlo" ELSE AfterStartTls(cfg)

\* the To header written from the list object as it is when flattening
flattenLiveTo(m) ==
    [headers |-> [i \in 1..Len(m.headers) |->
                     IF m.headers[i].name = "To"
                     THEN [name |-> "To", value |-> Join(heap[toaddrs])]
                     ELSE m.headers[i]],
     related |-> m.related, parts |-> m.parts]

\* Generator.flatten(msg): the headers as they were set, then the parts
flatten(m) == [headers |-> m.headers, related |-> m.related, parts |-> m.parts]

SubjectHeader(subject) == <<"=?utf-8?">> \o subject \o <<"?=">>

(***************************************************************************)
(* send_email: the steps.                                                  *)
(***************************************************************************)
\* lines 61-70
ProcessTo ==
    /\ pc = "to"
    /\ heap' = [l \in {"L1"} |-> re_split(strip(args.toaddrs))]
    /\ toaddrs' = "L1"
    /\ allrecips' = "L1"
    /\ msg' = [msg EXCEPT !.headers =
                   <<[name |-> "From", value |-> args.fromaddr],
                     [name |-> "Subject", value |-> SubjectHeader(args.subject)],
                     [name |-> "To", value |-> Join(heap'["L1"])]>>]
    /\ pc' = "cc"
    /\ UNCHANGED <<avars, vvars, args, config, appendedfilenames, io, session, sent, log, exc>>

\* lines 73-76
ProcessCc ==
    /\ pc = "cc"
    /\ IF Truthy(args.ccaddrs)
       THEN LET ccaddrs == re_split(strip(args.ccaddrs))
            IN  /\ msg' = [msg EXCEPT !.headers =
                               Append(@, [name |-> "CC", value |-> Join(ccaddrs)])]
                /\ heap' = [heap EXCEPT ![allrecips] = @ \o ccaddrs]
       ELSE UNCHANGED <<msg, heap>>
    /\ pc' = "bcc"
    /\ UNCHANGED <<avars, vvars, args, config, toaddrs, allrecips, appendedfilenames, io, session,
                   sent, log, exc>>

\* lines 78-81
ProcessBcc ==
    /\ pc = "bcc"
    /\ IF Truthy(args.bccaddrs)
       THEN heap' = [heap EXCEPT ![allrecips] = @ \o re_split(strip(args.bccaddrs))]
       ELSE UNCHANGED heap
    /\ pc' = "attach"
    /\ UNCHANGED <<avars, vvars, args, config, toaddrs, allrecips, msg, appendedfilenames, io, session,
                   sent, log, exc>>

\* lines 84-112; reading an attached file may fail
Attach ==
    /\ pc = "attach"
    /\ LET inl == IF args.inlineattachments # None
                  THEN AttachInline(args.inlineattachments) ELSE <<>>
           app == IF args.appendattachments # None
                  THEN AttachAppended(merge_pdf_attachments(args.appendattachments),
                                      [used |-> <<>>, parts |-> <<>>, warnings |-> <<>>])
                  ELSE [used |-> <<>>, parts |-> <<>>, warnings |-> <<>>]
       IN  \/ /\ msg' = [msg EXCEPT !.related = <<[disposition |-> "body"]>> \o inl,
                                    !.parts = app.parts]
              /\ appendedfilenames' = app.used
              /\ log' = log \o app.warnings
              /\ pc' = "connect"
              /\ UNCHANGED exc
           \/ /\ inl \o app.parts # <<>>
              /\ \E e \in Raises("attach") : Raise(e)
              /\ UNCHANGED <<msg, appendedfilenames>>
    /\ UNCHANGED <<avars, vvars, args, config, heap, toaddrs, allrecips, io, session, sent>>

\* an SMTP operation that succeeds and goes on at line next, or fails
Smtp(op, next) ==
    \/ /\ session' = Append(session, [op |-> op, ok |-> TRUE])
       /\ pc' = next
       /\ UNCHANGED <<log, exc>>
    \/ /\ session' = Append(session, [op |-> op, ok |-> FALSE])
       /\ \E e \in Raises(op) : Raise(e)

\* line 114
Connect ==
    /\ pc = "connect"
    /\ Smtp("connect", AfterConnect(config))
    /\ UNCHANGED <<avars, vvars, args, config, heap, toaddrs, allrecips, msg, appendedfilenames, io, sent>>

\* line 116
Ehlo ==
    /\ pc = "ehlo"
    /\ Smtp("ehlo", "starttls")
    /\ UNCHANGED <<avars, vvars, args, config, heap, toaddrs, allrecips, msg, appendedfilenames, io, sent>>

\* line 117
StartTls ==
    /\ pc = "starttls"
    /\ Smtp("starttls", AfterStartTls(config))
    /\ UNCHANGED <<avars, vvars, args, config, heap, toaddrs, allrecips, msg, appendedfilenames, io, sent>>

\* line 119
Login ==
    /\ pc = "login"
    /\ Smtp("login", "flatten")
    /\ UNCHANGED <<avars, vvars, args, config, heap, toaddrs, allrecips, msg, appendedfilenames, io, sent>>

\* lines 122-124
Flatten ==
    /\ pc = "flatten"
    /\ io' = flatten(msg)
    /\ pc' = "sendmail"
    /\ UNCHANGED <<avars, vvars, args, config, heap, toaddrs, allrecips, msg, appendedfilenames, session,
                   sent, log, exc>>

\* line 126
Sendmail ==
    /\ pc = "sendmail"
    /\ Smtp("sendmail", "quit")
    /\ sent' = IF pc' = "quit"
               THEN [from |-> args.fromaddr, to |-> heap[allrecips], data |-> io]
               ELSE sent
    /\ UNCHANGED <<avars, vvars, args, config, heap, toaddrs, allrecips, msg, appendedfilenames, io>>

\* line 127
Quit ==
    /\ pc = "quit"
    /\ Smtp("quit", "returned")
    /\ UNCHANGED <<avars, vvars, args, config, heap, toaddrs, allrecips, msg, appendedfilenames, io, sent>>

NextSend ==
    \/ ProcessTo \/ ProcessCc \/ ProcessBcc \/ Attach
    \/ Connect \/ Ehlo \/ StartTls \/ Login \/ Flatten \/ Sendmail \/ Quit

(***************************************************************************)
(* Calls of send_email.                                                    *)
(***************************************************************************)
Paths ==
    {[abs |-> TRUE, parts |-> << <<"d", "1">>, <<"x">> >>],
     [abs |-> TRUE, parts |-> << <<"d", "2">>, <<"x">> >>],
     [abs |-> FALSE, parts |-> << <<"~">>, <<"y">> >>]}
\* the custom file names of the |filename= option
CustomNames == {<<"x">>, <<"z">>}
VizRefs ==
    {[imagepath |-> p] : p \in Paths}
        \cup {[imagepath |-> p, filename |-> f] : p \in Paths, f \in CustomNames}

RECURSIVE AttachmentLists(_)
AttachmentLists(n) ==
    IF n = 0 THEN {<<>>}
    ELSE LET shorter == AttachmentLists(n - 1)
         IN  shorter \cup {Append(l, v) : l \in {m \in shorter : Len(m) = n - 1}, v \in VizRefs}

OneAddress == <<"a">>

SendStart ==
    /\ pc = "to"
    /\ heap = <<>> /\ toaddrs = None /\ allrecips = None /\ msg = NoMessage
    /\ appendedfilenames = <<>> /\ io = None /\ session = <<>>
    /\ sent = None /\ log = <<>> /\ exc = None
    /\ apc = "idle" /\ address = <<>> /\ regex_eval = None /\ errormessage = None
    /\ VIdle

Call(to, cc, bcc, inl, app) ==
    [fromaddr |-> <<"f">>, toaddrs |-> to, subject |-> <<"s">>, content |-> <<"h">>,
     ccaddrs |-> cc, bccaddrs |-> bcc, inlineattachments |-> inl, appendattachments |-> app]

\* calls that vary the recipients
InitRecipients ==
    /\ SendStart
    /\ \E to \in Strings({"a", ";"}, MaxFieldLen),
          cc \in {None} \cup Strings({"a", ","}, MaxFieldLen),
          bcc \in {None} \cup Strings({"b", ";", " "}, MaxFieldLen) :
           args = Call(to, cc, bcc, None, None)
    /\ config = [ssl |-> TRUE, user |-> TRUE]

\* calls that vary the attachments
InitAttachments ==
    /\ SendStart
    /\ \E inl \in {None, <<[imagepath |-> [abs |-> TRUE, parts |-> << <<"d", "1">>, <<"i">> >>]]>>},
          app \in {None} \cup AttachmentLists(MaxAttachments) :
           args = Call(OneAddress, None, None, inl, app)
    /\ config = [ssl |-> TRUE, user |-> TRUE]

\* calls that vary the SMTP configuration
InitSmtp ==
    /\ SendStart
    /\ \E to \in {OneAddress, <<"a", ";", "b">>},
          cc \in {None, <<"c">>},
          bcc \in {None, <<"b">>},
          app \in {None} \cup AttachmentLists(1) :
           args = Call(to, cc, bcc, None, app)
    /\ config \in [ssl : BOOLEAN, user : BOOLEAN]

SpecRecipients == InitRecipients /\ [][NextSend]_vars
SpecAttachments == InitAttachments /\ [][NextSend]_vars
SpecSmtp == InitSmtp /\ [][NextSend]_vars

(***************************************************************************)
(* Properties of send_email (SpecRecipients, SpecAttachments, SpecSmtp).   *)
(***************************************************************************)
\* the addresses of a recipient argument, none for an argument not given
AddressesOf(x) == IF Truthy(x) THEN re_split(strip(x)) ELSE <<>>

HeaderValues(hs, n) == {hs[i].value : i \in {j \in 1..Len(hs) : hs[j].name = n}}

\* C1: every address of the bcc argument is in the envelope given to sendmail,
\* and the headers of the message sent are From, Subject, To and, for a given
\* cc, CC; To is the joined addresses of the to argument alone, CC those of the
\* cc argument alone, and there is no BCC header.
C1_BccOnlyInEnvelope ==
    sent # None =>
        /\ \A k \in 1..Len(AddressesOf(args.bccaddrs)) :
               InList(AddressesOf(args.bccaddrs)[k], sent.to)
        /\ \A i \in 1..Len(sent.data.headers) :
               sent.data.headers[i].name \in {"From", "Subject", "To", "CC"}
        /\ HeaderValues(sent.data.headers, "To") = {Join(re_split(strip(args.toaddrs)))}
        /\ HeaderValues(sent.data.headers, "CC") =
               (IF Truthy(args.ccaddrs) THEN {Join(re_split(strip(args.ccaddrs)))} ELSE {})
        /\ HeaderValues(sent.data.headers, "BCC") = {}

C1_Witness ==
    /\ sent # None /\ Truthy(args.ccaddrs)
    /\ args.bccaddrs = <<"b", ";">>
    /\ InList(<<"b">>, sent.to) /\ Len(sent.to) > Len(re_split(strip(args.toaddrs)))

\* the appended attachments were attached (reading no file failed)
Attached == pc \notin {"idle", "to", "cc", "bcc", "attach"} /\ exc # "IOError"

\* C2: the file names of the appended parts of a message are pairwise distinct.
C2_DistinctFilenames ==
    Attached =>
        \A i, j \in 1..Len(msg.parts) : i # j => msg.parts[i].filename # msg.parts[j].filename

Given == IF args = None THEN <<>> ELSE args.appendattachments
HasOverride(k) == "filename" \in DOMAIN Given[k]
\* attachment k carries a custom name that no earlier attachment carried
FirstUse(k) ==
    /\ HasOverride(k)
    /\ \A j \in 1..(k - 1) : ~(HasOverride(j) /\ Given[j].filename = Given[k].filename)
\* the last component of the path of attachment k
PathName(k) == Given[k].imagepath.parts[Len(Given[k].imagepath.parts)]

RECURSIVE ExpectedWarnings(_)
ExpectedWarnings(k) ==
    IF k = 0 THEN <<>>
    ELSE ExpectedWarnings(k - 1)
             \o (IF HasOverride(k) /\ ~FirstUse(k)
                 THEN <<DuplicateWarning(Given[k].filename)>> ELSE <<>>)

\* C3: attachment k is attached under its custom name if it carries one that
\* no earlier attachment carried, otherwise under the base name of its path;
\* a warning is logged exactly for the attachments whose custom name was
\* already used; the used names are the custom names, each once; the parts
\* keep the order of the attachments.
C3_FirstOverrideWins ==
    Attached =>
        /\ Len(msg.parts) = Len(Given)
        /\ \A k \in 1..Len(Given) :
               /\ msg.parts[k].payload = abspath(expanduser(Given[k].imagepath))
               /\ msg.parts[k].disposition = "attachment"
               /\ msg.parts[k].filename =
                      (IF FirstUse(k) THEN Given[k].filename ELSE PathName(k))
        /\ SelectSeq(log, LAMBDA e : e[1] = "info") = ExpectedWarnings(Len(Given))
        /\ \A i, j \in 1..Len(appendedfilenames) :
               i # j => appendedfilenames[i] # appendedfilenames[j]
        /\ {appendedfilenames[i] : i \in 1..Len(appendedfilenames)}
               = {Given[k].filename : k \in {j \in 1..Len(Given) : HasOverride(j)}}

C3_Witness ==
    /\ Attached /\ Len(Given) = 3
    /\ HasOverride(1) /\ HasOverride(2) /\ Given[1].filename = Given[2].filename
    /\ msg.parts[1].filename = <<"z">> /\ msg.parts[2].filename = <<"x">>
    /\ Len(log) = 1

\* C4: whenever send_email fails, no message has been handed to the server.
C4_FailureMeansNothingSent ==
    pc = "raised" => sent = None

\* the SMTP operations of a send under a configuration
ExpectedSession(cfg) ==
    <<"connect">>
        \o (IF cfg.ssl THEN <<"ehlo", "starttls">> ELSE <<>>)
        \o (IF cfg.user THEN <<"login">> ELSE <<>>)
        \o <<"sendmail", "quit">>

\* C9: the SMTP operations issued are, in order, a prefix of connect, EHLO and
\* STARTTLS (iff TLS is configured), login (iff a user is configured),
\* sendmail, quit; only the last one issued can have failed, and then
\* send_email has raised; a message is handed over only by the one sendmail,
\* to the full envelope; a send that returns has issued them all.
C9_SmtpOrder ==
    pc # "idle" =>
        /\ Len(session) <= Len(ExpectedSession(config))
        /\ \A i \in 1..Len(session) : session[i].op = ExpectedSession(config)[i]
        /\ \A i \in 1..(Len(session) - 1) : session[i].ok
        /\ (Len(session) > 0 /\ ~session[Len(session)].ok) => pc = "raised"
        /\ sent # None <=>
               \E i \in 1..Len(session) : session[i].op = "sendmail" /\ session[i].ok
        /\ sent # None =>
               sent.to = AddressesOf(args.toaddrs) \o AddressesOf(args.ccaddrs)
                             \o AddressesOf(args.bccaddrs)
        /\ pc = "returned" =>
               /\ Len(session) = Len(ExpectedSession(config))
               /\ session[Len(session)] = [op |-> "quit", ok |-> TRUE]

C9_Witness ==
    /\ pc = "returned" /\ config.ssl /\ config.user
    /\ Len(session) = 6 /\ session[4] = [op |-> "login", ok |-> TRUE]

====
